---- MODULE Spec2Model ----
(***************************************************************************)
(* Mixed-language translation: word-level language tagging                 *)
(* (language_detector.py), candidate scoring and selection                 *)
(* (model_handler.py) and the UI handler (app_simple.py).                  *)
(*                                                                         *)
(* A text is a sequence of characters.  Each character is named by a      *)
(* string; the tables below give, for every character, the Unicode        *)
(* properties the regular expressions of the source test.                 *)
(***************************************************************************)
EXTENDS Integers, Sequences, FiniteSets, TLC

(***************************************************************************)
(* Characters                                                              *)
(***************************************************************************)
\* "a": U+0061; "1": U+0031; "bn_ba": U+09AC (Bengali); "ar_ain": U+0639;
\* "ar_ext": U+0750 (Arabic Supplement); "ar_qm": U+061F (Arabic question
\* mark); "cy_de": U+0434; "el_alpha": U+03B1; "he_alef": U+05D0;
\* "th_ko": U+0E01; "hi_ka": U+0915; "ko_han": U+D55C; "ja_a": U+3042;
\* "zh_zhong": U+4E2D.
LatinLetters == {"a"}

SpaceChars == {" ", "\n"}

PunctChars == {",", ".", "!", "?", "ar_qm"}

WordChars ==
    {"a", "1", "bn_ba", "ar_ain", "ar_ext", "cy_de", "el_alpha", "he_alef",
     "th_ko", "hi_ka", "ko_han", "ja_a", "zh_zhong"}

\* regex \w
IsWord(c) == c \in WordChars

\* regex \s and str.isspace()
IsSpace(c) == c \in SpaceChars

(***************************************************************************)
(* Sequence helpers                                                        *)
(***************************************************************************)
Last(s) == s[Len(s)]

Front(s) == SubSeq(s, 1, Len(s) - 1)

RECURSIVE CountIn(_, _)
\* len(RE.findall(text)) for a one-character class RE
CountIn(s, set) ==
    IF s = <<>> THEN 0
    ELSE (IF Head(s) \in set THEN 1 ELSE 0) + CountIn(Tail(s), set)

RECURSIVE LStrip(_)
LStrip(s) == IF s # <<>> /\ IsSpace(Head(s)) THEN LStrip(Tail(s)) ELSE s

RECURSIVE RStrip(_)
RStrip(s) == IF s # <<>> /\ IsSpace(Last(s)) THEN RStrip(Front(s)) ELSE s

\* str.strip()
Strip(s) == RStrip(LStrip(s))

RECURSIVE CollapseSpaces(_)
\* re.sub(r"\s+", " ", text)
CollapseSpaces(s) ==
    IF s = <<>> THEN <<>>
    ELSE IF IsSpace(Head(s))
         THEN <<" ">> \o CollapseSpaces(LStrip(s))
         ELSE <<Head(s)>> \o CollapseSpaces(Tail(s))

\* normalize without the final strip
normalize_nostrip(text) == IF text # <<>> THEN CollapseSpaces(text) ELSE <<>>

normalize(text) == IF text # <<>> THEN Strip(CollapseSpaces(text)) ELSE <<>>

(***************************************************************************)
(* Exact rational numbers (scores)                                         *)
(***************************************************************************)
Rat(n, d) == [num |-> n, den |-> d]

RatLess(p, q) == p.num * q.den < q.num * p.den

RatEq(p, q) == p.num * q.den = q.num * p.den

\* floor division for a positive divisor
FloorDiv(n, d) == n \div d

\* round(x, 3): the nearest multiple of 1/1000, ties to even
Round3(q) ==
    LET n2 == 2 * 1000 * q.num
        d2 == 2 * q.den
        fl == FloorDiv(1000 * q.num, q.den)
        twiceFrac == n2 - fl * d2
        up == \/ twiceFrac > q.den
              \/ (twiceFrac = q.den /\ fl % 2 = 1)
    IN  Rat(IF up THEN fl + 1 ELSE fl, 1000)

(***************************************************************************)
(* language_config.py                                                      *)
(***************************************************************************)
LanguageNames ==
    {"Arabic", "English", "Spanish", "French", "German", "Italian",
     "Portuguese", "Russian", "Chinese (Simplified)", "Chinese (Traditional)",
     "Japanese", "Korean", "Hindi", "Bengali", "Urdu", "Vietnamese", "Thai",
     "Indonesian", "Malay", "Tamil", "Telugu", "Turkish", "Dutch", "Polish",
     "Swedish", "Greek", "Czech", "Romanian", "Hungarian", "Ukrainian",
     "Danish", "Finnish", "Norwegian", "Persian", "Hebrew", "Swahili",
     "Amharic", "Hausa", "Yoruba", "Somali", "Catalan", "Slovak", "Bulgarian",
     "Croatian", "Serbian", "Lithuanian", "Latvian", "Estonian", "Slovenian"}

LANGUAGES ==
    [n \in LanguageNames |->
       CASE n = "Arabic" -> "arb_Arab"
         [] n = "English" -> "eng_Latn"
         [] n = "Spanish" -> "spa_Latn"
         [] n = "French" -> "fra_Latn"
         [] n = "German" -> "deu_Latn"
         [] n = "Italian" -> "ita_Latn"
         [] n = "Portuguese" -> "por_Latn"
         [] n = "Russian" -> "rus_Cyrl"
         [] n = "Chinese (Simplified)" -> "zho_Hans"
         [] n = "Chinese (Traditional)" -> "zho_Hant"
         [] n = "Japanese" -> "jpn_Jpan"
         [] n = "Korean" -> "kor_Hang"
         [] n = "Hindi" -> "hin_Deva"
         [] n = "Bengali" -> "ben_Beng"
         [] n = "Urdu" -> "urd_Arab"
         [] n = "Vietnamese" -> "vie_Latn"
         [] n = "Thai" -> "tha_Thai"
         [] n = "Indonesian" -> "ind_Latn"
         [] n = "Malay" -> "zsm_Latn"
         [] n = "Tamil" -> "tam_Taml"
         [] n = "Telugu" -> "tel_Telu"
         [] n = "Turkish" -> "tur_Latn"
         [] n = "Dutch" -> "nld_Latn"
         [] n = "Polish" -> "pol_Latn"
         [] n = "Swedish" -> "swe_Latn"
         [] n = "Greek" -> "ell_Grek"
         [] n = "Czech" -> "ces_Latn"
         [] n = "Romanian" -> "ron_Latn"
         [] n = "Hungarian" -> "hun_Latn"
         [] n = "Ukrainian" -> "ukr_Cyrl"
         [] n = "Danish" -> "dan_Latn"
         [] n = "Finnish" -> "fin_Latn"
         [] n = "Norwegian" -> "nob_Latn"
         [] n = "Persian" -> "pes_Arab"
         [] n = "Hebrew" -> "heb_Hebr"
         [] n = "Swahili" -> "swh_Latn"
         [] n = "Amharic" -> "amh_Ethi"
         [] n = "Hausa" -> "hau_Latn"
         [] n = "Yoruba" -> "yor_Latn"
         [] n = "Somali" -> "som_Latn"
         [] n = "Catalan" -> "cat_Latn"
         [] n = "Slovak" -> "slk_Latn"
         [] n = "Bulgarian" -> "bul_Cyrl"
         [] n = "Croatian" -> "hrv_Latn"
         [] n = "Serbian" -> "srp_Cyrl"
         [] n = "Lithuanian" -> "lit_Latn"
         [] n = "Latvian" -> "lvs_Latn"
         [] n = "Estonian" -> "est_Latn"
         [] n = "Slovenian" -> "slv_Latn"]

RegistryTags == {LANGUAGES[n] : n \in LanguageNames}

\* LANGUAGES.get(language_name)
get_language_code(language_name) ==
    IF language_name \in LanguageNames THEN LANGUAGES[language_name] ELSE "None"

\* CODE_TO_LANGUAGE.get(code, code)
get_language_name_from_code(code) ==
    IF code \in RegistryTags
    THEN CHOOSE n \in LanguageNames : LANGUAGES[n] = code
    ELSE code

(***************************************************************************)
(* model_handler.py: scoring                                               *)
(***************************************************************************)
\* [\u0600-\u06FF]
ARABIC_RE == {"ar_ain", "ar_qm"}

\* [A-Za-z]
LATIN_RE == LatinLetters

\* [\u0400-\u04FF]
CYRILLIC_RE == {"cy_de"}

\* [\u4E00-\u9FFF]
CJK_RE == {"zh_zhong"}

SentinelLeftover == 999

count_leftover_scripts(text, target_lang_code) ==
    IF text = <<>> THEN SentinelLeftover
    ELSE
      LET arabic == CountIn(text, ARABIC_RE)
          latin == CountIn(text, LATIN_RE)
          cyr == CountIn(text, CYRILLIC_RE)
          cjk == CountIn(text, CJK_RE)
      IN  IF target_lang_code \in {"arb_Arab", "pes_Arab", "urd_Arab"}
          THEN latin + cyr + cjk
          ELSE IF target_lang_code \in
                    {"eng_Latn", "fra_Latn", "spa_Latn", "deu_Latn",
                     "ita_Latn", "por_Latn", "tur_Latn", "nld_Latn"}
          THEN arabic + cyr + cjk
          ELSE IF target_lang_code \in {"rus_Cyrl", "ukr_Cyrl", "bul_Cyrl"}
          THEN latin + arabic + cjk
          ELSE IF target_lang_code \in
                    {"zho_Hans", "zho_Hant", "jpn_Jpan", "kor_Hang"}
          THEN latin + arabic + cyr
          ELSE latin + arabic

SentinelScore == -999

\* the characters . ! ? and U+061F
Terminators == {".", "!", "?", "ar_qm"}

Max(a, b) == IF a >= b THEN a ELSE b

\* The score as an exact rational; "IndexError" when a non-empty translation
\* normalizes to the empty string (translation[-1] on an empty string).
score_translation(source, translation, target_lang_code) ==
    IF translation = <<>> THEN Rat(SentinelScore, 1)
    ELSE
      LET src == normalize(source)
          tr == normalize(translation)
      IN  IF tr = <<>> THEN "IndexError"
          ELSE
            LET lenS == Max(Len(src), 1)
                \* ratio = Len(tr) / lenS ; everything below is in 1/100
                end_bonus == IF Last(tr) \in Terminators THEN 25 ELSE 0
                leftover == count_leftover_scripts(tr, target_lang_code)
                leftover_penalty == leftover * 2
                short_penalty == IF 100 * Len(tr) < 55 * lenS THEN 70 ELSE 0
            IN  Rat(100 * Len(tr)
                      + lenS * ((end_bonus) - (leftover_penalty + short_penalty)),
                    100 * lenS)

(***************************************************************************)
(* language_detector.py                                                    *)
(***************************************************************************)
MapCodes ==
    {"ar", "en", "fr", "es", "de", "it", "pt", "ru", "tr", "nl", "pl", "sv",
     "id", "vi"}

MAP ==
    [c \in MapCodes |->
       CASE c = "ar" -> "arb_Arab"
         [] c = "en" -> "eng_Latn"
         [] c = "fr" -> "fra_Latn"
         [] c = "es" -> "spa_Latn"
         [] c = "de" -> "deu_Latn"
         [] c = "it" -> "ita_Latn"
         [] c = "pt" -> "por_Latn"
         [] c = "ru" -> "rus_Cyrl"
         [] c = "tr" -> "tur_Latn"
         [] c = "nl" -> "nld_Latn"
         [] c = "pl" -> "pol_Latn"
         [] c = "sv" -> "swe_Latn"
         [] c = "id" -> "ind_Latn"
         [] c = "vi" -> "vie_Latn"]

\* The patterns in dictionary order; each is the set of characters of its
\* ranges.
SCRIPT_PATTERNS ==
    << [script |-> "arabic", chars |-> {"ar_ain", "ar_ext", "ar_qm"}],
       [script |-> "cyrillic", chars |-> {"cy_de"}],
       [script |-> "greek", chars |-> {"el_alpha"}],
       [script |-> "hebrew", chars |-> {"he_alef"}],
       [script |-> "thai", chars |-> {"th_ko"}],
       [script |-> "devanagari", chars |-> {"hi_ka"}],
       [script |-> "korean", chars |-> {"ko_han"}],
       [script |-> "japanese", chars |-> {"ja_a"}],
       [script |-> "chinese", chars |-> {"zh_zhong"}] >>

ScriptNames == {SCRIPT_PATTERNS[i].script : i \in DOMAIN SCRIPT_PATTERNS}

SCRIPT_DEFAULT ==
    [s \in ScriptNames |->
       CASE s = "arabic" -> "arb_Arab"
         [] s = "cyrillic" -> "rus_Cyrl"
         [] s = "greek" -> "ell_Grek"
         [] s = "hebrew" -> "heb_Hebr"
         [] s = "thai" -> "tha_Thai"
         [] s = "devanagari" -> "hin_Deva"
         [] s = "korean" -> "kor_Hang"
         [] s = "japanese" -> "jpn_Jpan"
         [] s = "chinese" -> "zho_Hans"]

\* pat.search(token)
Search(chars, token) == \E i \in DOMAIN token : token[i] \in chars

\* The default tag of the first pattern that matches, or "None".
detect_by_script(token) ==
    LET hits == {i \in DOMAIN SCRIPT_PATTERNS :
                    Search(SCRIPT_PATTERNS[i].chars, token)}
    IN  IF hits = {} THEN "None"
        ELSE LET first == CHOOSE i \in hits : \A j \in hits : i <= j
             IN  SCRIPT_DEFAULT[SCRIPT_PATTERNS[first].script]

\* re.fullmatch(r"[A-Za-z]+", token)
FullMatchLatin(token) ==
    token # <<>> /\ \A i \in DOMAIN token : token[i] \in LatinLetters

ShortLen == 3

LongLen == 4

\* Whether detect_language reaches the call detect(token).
QueriesIdentifier(token, available) ==
    LET tok == Strip(token)
    IN  /\ tok # <<>>
        /\ detect_by_script(tok) = "None"
        /\ ~(FullMatchLatin(tok) /\ Len(tok) <= ShortLen)
        /\ available
        /\ Len(tok) >= LongLen

\* detect_language whose short-word rule returns the default of the parameter
\* `fallback` and not the argument
detect_language_short_default(token, fallback, available, answer) ==
    LET tok == Strip(token)
        script_lang == detect_by_script(tok)
    IN  IF tok = <<>> THEN fallback
        ELSE IF script_lang # "None" THEN script_lang
        ELSE IF FullMatchLatin(tok) /\ Len(tok) <= ShortLen THEN "eng_Latn"
        ELSE IF available /\ Len(tok) >= LongLen
             THEN IF answer = "raise" THEN fallback
                  ELSE IF answer \in MapCodes THEN MAP[answer] ELSE fallback
        ELSE fallback

\* answer: what detect(token) does if it is called: a code, or "raise".
detect_language(token, fallback, available, answer) ==
    LET tok == Strip(token)
        script_lang == detect_by_script(tok)
    IN  IF tok = <<>> THEN fallback
        ELSE IF script_lang # "None" THEN script_lang
        ELSE IF FullMatchLatin(tok) /\ Len(tok) <= ShortLen THEN fallback
        ELSE IF available /\ Len(tok) >= LongLen
             THEN IF answer = "raise" THEN fallback
                  ELSE IF answer \in MapCodes THEN MAP[answer] ELSE fallback
        ELSE fallback

TokenKind(c) ==
    IF IsWord(c) THEN "word" ELSE IF IsSpace(c) THEN "space" ELSE "punct"

RECURSIVE RunLength(_, _)
\* the length of the longest prefix of s whose characters have kind k
RunLength(s, k) ==
    IF s # <<>> /\ TokenKind(Head(s)) = k THEN 1 + RunLength(Tail(s), k) ELSE 0

RECURSIVE FindAllTokens(_)
\* re.findall(r"\w+|[^\w\s]+|\s+", text)
FindAllTokens(text) ==
    IF text = <<>> THEN <<>>
    ELSE LET n == RunLength(text, TokenKind(Head(text)))
         IN  <<SubSeq(text, 1, n)>> \o FindAllTokens(SubSeq(text, n + 1, Len(text)))

\* tok.isspace()
IsSpaceToken(tok) == tok # <<>> /\ \A i \in DOMAIN tok : IsSpace(tok[i])

\* re.fullmatch(r"[^\w\s]+", tok)
FullMatchPunct(tok) ==
    tok # <<>> /\ \A i \in DOMAIN tok : ~IsWord(tok[i]) /\ ~IsSpace(tok[i])

RECURSIVE CounterKeys(_)
\* list(Counter(langs).keys()): the distinct elements in first-seen order
CounterKeys(langs) ==
    IF langs = <<>> THEN <<>>
    ELSE LET rest == CounterKeys(Front(langs))
         IN  IF \E i \in DOMAIN rest : rest[i] = Last(langs)
             THEN rest
             ELSE Append(rest, Last(langs))

RECURSIVE NonPunctLangs_all(_)
\* the tags of all words, punctuation included
NonPunctLangs_all(words) ==
    IF words = <<>> THEN <<>>
    ELSE <<Head(words).lang>> \o NonPunctLangs_all(Tail(words))

RECURSIVE NonPunctLangs(_)
\* [lang for _, lang in words if lang != "punct"]
NonPunctLangs(words) ==
    IF words = <<>> THEN <<>>
    ELSE (IF Head(words).lang # "punct" THEN <<Head(words).lang>> ELSE <<>>)
           \o NonPunctLangs(Tail(words))

\* the dictionary analyze_words returns for the list `words`
AnalysisOf(words) ==
    LET keys == CounterKeys(NonPunctLangs(words))
    IN  [words |-> words, languages_detected |-> keys,
         languages_count |-> Len(keys)]

EmptyAnalysis == [words |-> <<>>, languages_detected |-> <<>>, languages_count |-> 0]

\* not text or not text.strip()
IsBlank(text) == text = <<>> \/ Strip(text) = <<>>

(***************************************************************************)
(* model_handler.py: hypotheses                                            *)
(***************************************************************************)
InSeq(x, s) == \E i \in DOMAIN s : s[i] = x

\* the list with `if` in the place of `elif`
Candidates_both(detected) ==
    (IF InSeq("arb_Arab", detected) THEN <<"arb_Arab">> ELSE <<>>)
      \o <<"eng_Latn">>
      \o (IF InSeq("fra_Latn", detected) THEN <<"fra_Latn">> ELSE <<>>)
      \o (IF InSeq("spa_Latn", detected) THEN <<"spa_Latn">> ELSE <<>>)

\* the list `candidates` built from languages_detected
Candidates(detected) ==
    (IF InSeq("arb_Arab", detected) THEN <<"arb_Arab">> ELSE <<>>)
      \o <<"eng_Latn">>
      \o (IF InSeq("fra_Latn", detected) THEN <<"fra_Latn">>
          ELSE IF InSeq("spa_Latn", detected) THEN <<"spa_Latn">>
          ELSE <<>>)

\* list(dict.fromkeys(candidates))
Hypotheses(detected) == CounterKeys(Candidates(detected))

(***************************************************************************)
(* Inputs                                                                  *)
(***************************************************************************)
\* A text is a concatenation of at most MaxPieces pieces.
MaxPieces == 3

Pieces ==
    { <<"a">>, <<"a", "a", "a", "a">>, <<"1", "1", "1", "1">>, <<"ar_ain">>,
      <<",">>, <<" ">>, <<"\n">> }

RECURSIVE TextsOf(_)
TextsOf(n) ==
    IF n = 0 THEN {<<>>}
    ELSE LET shorter == TextsOf(n - 1)
         IN  shorter \cup {t \o p : t \in shorter, p \in Pieces}

Texts == TextsOf(MaxPieces)

\* the target languages of the dropdown that the pipeline is run with
TargetNames == {"Arabic", "English"}

\* what langdetect's detect(token) can do: return a code, or raise
IdentifierAnswers == {"fr", "es", "en", "bn", "raise"}

\* what the decoder can return before .strip()
EngineOutputs ==
    { <<>>, <<" ">>, <<"a">>, <<"a", ".">> }

(***************************************************************************)
(* State                                                                   *)
(***************************************************************************)
VARIABLES
    LANGDETECT_AVAILABLE, \* language_detector.py: set at import
    model,                \* TranslationModel.model: "None" or "loaded"
    tokenizer_src_lang,   \* TranslationModel.tokenizer.src_lang
    entry,                \* the function called: analyze_words, translate, translate_ui
    text,                 \* its text argument
    target_lang_code,     \* translate's target_lang_code
    pc,                   \* idle, analyze, engine, done, raised
    tokens,               \* analyze_words: tokens
    ti,                   \* analyze_words: index of the next token of the loop
    words,                \* analyze_words: words
    context_lang,         \* analyze_words: context_lang
    queried,              \* indices of the tokens detect() was called for
    analysis,             \* <<>> (None) or <<the dictionary analyze_words returned>>
    hyps,                 \* translate: list(dict.fromkeys(candidates))
    outputs,              \* translate: outputs
    engineLog,            \* the calls of _translate_with_src, in order
    result,               \* <<>> or <<the dictionary translate returned>>
    ui,                   \* <<>> or <<the triple translate_ui returned>>
    scored,               \* a direct call of a scoring function and its value
    threads               \* the requests of the concurrent specification

vars ==
    << LANGDETECT_AVAILABLE, model, tokenizer_src_lang, entry, text,
       target_lang_code, pc, tokens, ti, words, context_lang, queried,
       analysis, hyps, outputs, engineLog, result, ui, scored, threads >>

analyzeVars == << tokens, ti, words, context_lang, queried >>

Init ==
    /\ LANGDETECT_AVAILABLE \in BOOLEAN
    \* "None": a TranslationModel that was just constructed;
    \* "loaded": app_simple.py was imported, which loads the model
    /\ model \in {"None", "loaded"}
    /\ tokenizer_src_lang = "None"
    /\ entry = "none"
    /\ text = <<>>
    /\ target_lang_code = "None"
    /\ pc = "idle"
    /\ tokens = <<>>
    /\ ti = 1
    /\ words = <<>>
    /\ context_lang = "eng_Latn"
    /\ queried = {}
    /\ analysis = <<>>
    /\ hyps = <<>>
    /\ outputs = <<>>
    /\ engineLog = <<>>
    /\ result = <<>>
    /\ ui = <<>>
    /\ scored = <<>>
    /\ threads = <<>>

(***************************************************************************)
(* analyze_words                                                           *)
(***************************************************************************)
\* analyze_words up to the loop: the tokens, the empty list, the context
StartLoop(t) ==
    /\ tokens' = FindAllTokens(t)
    /\ ti' = 1
    /\ words' = <<>>
    /\ context_lang' = "eng_Latn"
    /\ queried' = {}

\* analyze_words(text) called on its own, on the detector of a
\* TranslationModel that was just constructed (the application calls it
\* only through translate)
CallAnalyzeWords ==
    /\ pc = "idle"
    /\ model = "None"
    /\ \E t \in Texts :
         /\ text' = t
         /\ entry' = "analyze_words"
         /\ IF IsBlank(t)
            THEN /\ analysis' = <<EmptyAnalysis>>
                 /\ pc' = "done"
                 /\ UNCHANGED analyzeVars
            ELSE /\ StartLoop(t)
                 /\ analysis' = <<>>
                 /\ pc' = "analyze"
    /\ UNCHANGED << LANGDETECT_AVAILABLE, model, tokenizer_src_lang,
                    target_lang_code, hyps, outputs, engineLog, result, ui,
                    scored, threads >>

\* one iteration of the loop over tokens
AnalyzeToken ==
    /\ pc = "analyze"
    /\ ti <= Len(tokens)
    /\ LET tok == tokens[ti]
       IN  IF IsSpaceToken(tok)
           THEN UNCHANGED << words, context_lang, queried >>
           ELSE IF FullMatchPunct(tok)
           THEN /\ words' = Append(words, [tok |-> tok, lang |-> "punct"])
                /\ UNCHANGED << context_lang, queried >>
           ELSE \E answer \in IdentifierAnswers :
                  LET lang == detect_language(tok, context_lang,
                                              LANGDETECT_AVAILABLE, answer)
                  IN  /\ words' = Append(words, [tok |-> tok, lang |-> lang])
                      /\ context_lang' = lang
                      /\ queried' =
                           IF QueriesIdentifier(tok, LANGDETECT_AVAILABLE)
                           THEN queried \cup {ti} ELSE queried
    /\ ti' = ti + 1
    /\ UNCHANGED << LANGDETECT_AVAILABLE, model, tokenizer_src_lang,
                    entry, text, target_lang_code, pc, tokens, analysis, hyps,
                    outputs, engineLog, result, ui, scored, threads >>

\* the end of the loop: analyze_words returns; in translate the list of
\* hypotheses is built from the result
FinishAnalyze ==
    /\ pc = "analyze"
    /\ ti > Len(tokens)
    /\ analysis' = <<AnalysisOf(words)>>
    /\ IF entry = "analyze_words"
       THEN /\ pc' = "done"
            /\ UNCHANGED hyps
       ELSE /\ pc' = "engine"
            /\ hyps' = Hypotheses(AnalysisOf(words).languages_detected)
    /\ UNCHANGED << LANGDETECT_AVAILABLE, model, tokenizer_src_lang,
                    entry, text, target_lang_code, tokens, ti, words,
                    context_lang, queried, outputs, engineLog, result, ui,
                    scored, threads >>

(***************************************************************************)
(* translate                                                               *)
(***************************************************************************)
\* load_model: nothing when the model is there
load_model(m) == IF m # "None" THEN m ELSE "loaded"

\* {"translation": "", "analysis": None}
EmptyResult ==
    [translation |-> <<>>, analysis |-> <<>>, has_best |-> FALSE,
     best_src |-> "None", best_score |-> Rat(0, 1)]

\* translate up to the loop of analyze_words.  The local `text` of translate
\* is normalize(text) from its first line on.
TranslateBegin(t, code) ==
    /\ text' = t
    /\ target_lang_code' = code
    /\ IF normalize(t) = <<>>
       THEN /\ result' = <<EmptyResult>>
            /\ pc' = "done"
            /\ UNCHANGED << model, analysis, hyps >>
            /\ UNCHANGED analyzeVars
       ELSE /\ model' = IF model = "None" THEN load_model(model) ELSE model
            /\ result' = <<>>
            /\ IF IsBlank(normalize(t))
               THEN \* analyze_words returns at its first line
                    /\ analysis' = <<EmptyAnalysis>>
                    /\ hyps' = Hypotheses(EmptyAnalysis.languages_detected)
                    /\ pc' = "engine"
                    /\ UNCHANGED analyzeVars
               ELSE /\ StartLoop(normalize(t))
                    /\ analysis' = <<>>
                    /\ pc' = "analyze"
                    /\ UNCHANGED hyps

\* translator.translate(text, target_lang_code) called on a new TranslationModel
CallTranslate ==
    /\ pc = "idle"
    /\ model = "None"
    /\ entry' = "translate"
    /\ \E t \in Texts, name \in TargetNames : TranslateBegin(t, LANGUAGES[name])
    /\ UNCHANGED << LANGDETECT_AVAILABLE, tokenizer_src_lang, outputs,
                    engineLog, ui, scored, threads >>

\* ("", "Please enter some text.", "")
BlankUI == [translation |-> <<>>, status |-> [kind |-> "enter_text", languages |-> 0],
            analysis_md |-> <<>>]

\* translate_ui(text, target_lang) of the imported application
CallTranslateUI ==
    /\ pc = "idle"
    /\ model = "loaded"
    /\ entry' = "translate_ui"
    /\ \E t \in Texts, name \in TargetNames :
         IF IsBlank(t)
         THEN /\ text' = t
              /\ ui' = <<BlankUI>>
              /\ pc' = "done"
              /\ UNCHANGED << model, target_lang_code, analysis, hyps, result >>
              /\ UNCHANGED analyzeVars
         ELSE /\ TranslateBegin(t, get_language_code(name))
              /\ ui' = <<>>
    /\ UNCHANGED << LANGDETECT_AVAILABLE, tokenizer_src_lang, outputs,
                    engineLog, scored, threads >>

\* _translate_with_src returns: one iteration of the loop over the hypotheses
EngineCall ==
    /\ pc = "engine"
    /\ Len(outputs) < Len(hyps)
    /\ LET src == hyps[Len(outputs) + 1]
       IN  /\ tokenizer_src_lang' = src
           /\ \E raw \in EngineOutputs :
                LET out == Strip(raw)
                IN  outputs' = Append(outputs,
                        [out |-> out,
                         score |-> score_translation(normalize(text), out,
                                                     target_lang_code),
                         src |-> src])
           /\ engineLog' = Append(engineLog, [src |-> src, encoded |-> src])
    /\ UNCHANGED << LANGDETECT_AVAILABLE, model, entry, text, target_lang_code,
                    pc, tokens, ti, words, context_lang, queried, analysis,
                    hyps, result, ui, scored, threads >>

\* _translate_with_src raises: nothing catches it, in translate or in
\* translate_ui
EngineRaises ==
    /\ pc = "engine"
    /\ Len(outputs) < Len(hyps)
    /\ tokenizer_src_lang' = hyps[Len(outputs) + 1]
    /\ engineLog' = Append(engineLog,
           [src |-> hyps[Len(outputs) + 1], encoded |-> hyps[Len(outputs) + 1]])
    /\ pc' = "raised"
    /\ UNCHANGED << LANGDETECT_AVAILABLE, model, entry, text, target_lang_code,
                    tokens, ti, words, context_lang, queried, analysis, hyps,
                    outputs, result, ui, scored, threads >>

RECURSIVE MaxFromLast(_, _, _)
MaxFromLast(outs, i, best) ==
    IF i > Len(outs) THEN best
    ELSE MaxFromLast(outs, i + 1,
                     IF RatLess(outs[i].score, best.score) THEN best ELSE outs[i])

\* a max that keeps the last of several maximal elements
MaxByScore_last(outs) == MaxFromLast(outs, 2, outs[1])

RECURSIVE MaxFrom(_, _, _)
MaxFrom(outs, i, best) ==
    IF i > Len(outs) THEN best
    ELSE MaxFrom(outs, i + 1,
                 IF RatLess(best.score, outs[i].score) THEN outs[i] ELSE best)

\* max(outputs, key=lambda x: x[1]) for a non-empty list
MaxByScore(outs) == MaxFrom(outs, 2, outs[1])

\* the dictionary translate returns after the loop
TranslateResult(outs, an) ==
    LET best == MaxByScore(outs)
    IN  [translation |-> best.out, analysis |-> an, has_best |-> TRUE,
         best_src |-> best.src, best_score |-> Round3(best.score)]

RECURSIVE FormatWords(_)
FormatWords(ws) ==
    IF ws = <<>> THEN <<>>
    ELSE << [word |-> Head(ws).tok,
             label |-> IF Head(ws).lang = "punct" THEN "punctuation"
                       ELSE get_language_name_from_code(Head(ws).lang)] >>
           \o FormatWords(Tail(ws))

\* format_analysis: <<>> is the empty string
format_analysis(an) ==
    IF an = <<>> THEN <<>>
    ELSE << [count |-> an[1].languages_count,
             langs |-> [i \in DOMAIN an[1].languages_detected |->
                          get_language_name_from_code(an[1].languages_detected[i])],
             lines |-> FormatWords(an[1].words)] >>

\* what translate_ui returns for the dictionary translate returned
UIOf(res) ==
    [translation |-> res.translation,
     status |-> [kind |-> "done",
                 languages |-> IF res.analysis # <<>>
                               THEN res.analysis[1].languages_count ELSE 0],
     analysis_md |-> format_analysis(res.analysis)]

\* the loop is over: translate returns, and translate_ui after it
Return ==
    /\ pc = "engine"
    /\ Len(outputs) = Len(hyps)
    /\ LET res == TranslateResult(outputs, analysis)
       IN  /\ result' = <<res>>
           /\ ui' = IF entry = "translate_ui" THEN <<UIOf(res)>> ELSE ui
    /\ pc' = "done"
    /\ UNCHANGED << LANGDETECT_AVAILABLE, model, tokenizer_src_lang, entry,
                    text, target_lang_code, tokens, ti, words, context_lang,
                    queried, analysis, hyps, outputs, engineLog, scored, threads >>

Next ==
    \/ CallAnalyzeWords
    \/ CallTranslate
    \/ CallTranslateUI
    \/ AnalyzeToken
    \/ FinishAnalyze
    \/ EngineCall
    \/ EngineRaises
    \/ Return

Spec == Init /\ [][Next]_vars

(***************************************************************************)
(* The scoring functions called on their own                               *)
(***************************************************************************)
MaxScoreLen == 2

ScoreChars == {"a", "ar_ain", "cy_de", "zh_zhong", ".", " "}

RECURSIVE SeqsUpTo(_, _)
SeqsUpTo(chars, n) ==
    IF n = 0 THEN {<<>>}
    ELSE LET shorter == SeqsUpTo(chars, n - 1)
         IN  shorter \cup {Append(t, c) : t \in shorter, c \in chars}

ScoreTexts == SeqsUpTo(ScoreChars, MaxScoreLen)

ScoreSources == { <<"a">>, <<"a", "a", "a">> }

pipelineVars ==
    << LANGDETECT_AVAILABLE, model, tokenizer_src_lang, entry, pc, tokens, ti,
       words, context_lang, queried, analysis, hyps, outputs, engineLog,
       result, ui, threads >>

\* count_leftover_scripts(text, target_lang_code) for a tag of the registry
CallCountLeftover ==
    /\ pc = "idle"
    /\ scored = <<>>
    /\ \E t \in ScoreTexts, tag \in RegistryTags :
         /\ text' = t
         /\ target_lang_code' = tag
         /\ scored' = << [fn |-> "count_leftover_scripts",
                          leftover |-> count_leftover_scripts(t, tag),
                          raised |-> FALSE,
                          score |-> Rat(0, 1)] >>
    /\ UNCHANGED pipelineVars

\* score_translation(source, translation, target_lang_code); `text` holds the
\* translation
CallScoreTranslation ==
    /\ pc = "idle"
    /\ scored = <<>>
    /\ \E source \in ScoreSources, t \in ScoreTexts, tag \in RegistryTags :
         LET v == score_translation(source, t, tag)
             raises == t # <<>> /\ normalize(t) = <<>>
         IN  /\ text' = t
             /\ target_lang_code' = tag
             /\ scored' = << [fn |-> "score_translation",
                              leftover |-> 0,
                              raised |-> raises,
                              score |-> IF raises THEN Rat(0, 1) ELSE v] >>
    /\ UNCHANGED pipelineVars

NextScore == CallCountLeftover \/ CallScoreTranslation

SpecScore == Init /\ [][NextScore]_vars

(***************************************************************************)
(* Two requests on the shared TranslationModel                             *)
(***************************************************************************)
\* the lists of hypotheses translate can build
HypothesisLists ==
    {Hypotheses(d) : d \in SeqsUpTo({"arb_Arab", "eng_Latn", "fra_Latn", "spa_Latn"}, 2)}

Requests == {1, 2}

concVars ==
    << LANGDETECT_AVAILABLE, model, entry, text, target_lang_code, pc, tokens,
       ti, words, context_lang, queried, analysis, hyps, outputs, engineLog,
       result, ui, scored >>

\* Both requests are in the loop over their hypotheses, the model is loaded
\* (app_simple.py loads it at import).
InitConc ==
    /\ Init
    /\ model = "loaded"
    /\ LANGDETECT_AVAILABLE

StartRequests ==
    /\ pc = "idle"
    /\ threads = <<>>
    /\ \E h1 \in HypothesisLists, h2 \in HypothesisLists :
         threads' = [r \in Requests |->
                       [hyps |-> IF r = 1 THEN h1 ELSE h2, i |-> 1, at |-> "set",
                        encoded |-> "None", calls |-> <<>>]]
    /\ UNCHANGED tokenizer_src_lang
    /\ UNCHANGED concVars

\* self.tokenizer.src_lang = src_lang
SetSrcLang(r) ==
    /\ threads # <<>>
    /\ threads[r].at = "set"
    /\ tokenizer_src_lang' = threads[r].hyps[threads[r].i]
    /\ threads' = [threads EXCEPT ![r].at = "tokenize"]
    /\ UNCHANGED concVars

\* inputs = self.tokenizer(text, ...): encodes with the tokenizer's src_lang
Tokenize(r) ==
    /\ threads # <<>>
    /\ threads[r].at = "tokenize"
    /\ threads' = [threads EXCEPT ![r].at = "generate",
                                  ![r].encoded = tokenizer_src_lang]
    /\ UNCHANGED tokenizer_src_lang
    /\ UNCHANGED concVars

\* self.model.generate(**inputs, ...) and the return to the loop of translate
Generate(r) ==
    /\ threads # <<>>
    /\ threads[r].at = "generate"
    /\ threads' =
         [threads EXCEPT
            ![r].calls = Append(@, [src |-> threads[r].hyps[threads[r].i],
                                    encoded |-> threads[r].encoded]),
            ![r].i = @ + 1,
            ![r].at = IF threads[r].i + 1 > Len(threads[r].hyps)
                      THEN "done" ELSE "set"]
    /\ UNCHANGED tokenizer_src_lang
    /\ UNCHANGED concVars

NextConc ==
    \/ StartRequests
    \/ \E r \in Requests : SetSrcLang(r)
    \/ \E r \in Requests : Tokenize(r)
    \/ \E r \in Requests : Generate(r)

SpecConc == InitConc /\ [][NextConc]_vars

(***************************************************************************)
(* Properties                                                              *)
(***************************************************************************)
AllSpace(t) == \A i \in DOMAIN t : t[i] \in SpaceChars

NotSpaceToken(tok) == ~IsSpaceToken(tok)

NotSpaceChar(c) == c \notin SpaceChars

RECURSIVE Flatten(_)
Flatten(ss) == IF ss = <<>> THEN <<>> ELSE Head(ss) \o Flatten(Tail(ss))

\* the text analyze_words was given
AnalyzedText == IF entry = "analyze_words" THEN text ELSE normalize(text)

\* the tag of the nearest word before position i of ws that is no
\* punctuation, eng_Latn if there is none
PrevWordLang(ws, i) ==
    LET before == {j \in 1..(i - 1) : ws[j].lang # "punct"}
    IN  IF before = {} THEN "eng_Latn"
        ELSE ws[CHOOSE j \in before : \A k \in before : k <= j].lang

IsShortLatin(tok) == FullMatchLatin(tok) /\ Len(tok) <= 3

TranslateReturned == pc = "done" /\ result # <<>> /\ result[1].has_best

\* outs[i] has the maximal score and is the first to have it
IsStableMax(outs, i) ==
    /\ \A j \in DOMAIN outs : ~RatLess(outs[i].score, outs[j].score)
    /\ \A j \in 1..(i - 1) : RatLess(outs[j].score, outs[i].score)

\* r is a multiple of 1/1000 nearest to q
IsRounded3(r, q) ==
    LET diff == r.num * q.den - 1000 * q.num
    IN  /\ r.den = 1000
        /\ 2 * diff <= q.den
        /\ -(2 * diff) <= q.den

\* what translate returns besides the score, for the candidate outputs[i]
ReturnsCandidate(i) ==
    /\ Len(outputs) = Len(hyps)
    /\ \A j \in DOMAIN outputs :
         /\ outputs[j].src = hyps[j]
         /\ outputs[j].score =
              score_translation(normalize(text), outputs[j].out, target_lang_code)
    /\ result[1].translation = outputs[i].out
    /\ result[1].best_src = outputs[i].src
    /\ IsStableMax(outputs, i)
    /\ result[1].analysis = analysis
    /\ analysis # <<>>
    /\ [k \in DOMAIN analysis[1].words |-> analysis[1].words[k].tok]
         = SelectSeq(FindAllTokens(normalize(text)), NotSpaceToken)

\* C1 as claimed: translate returns the translation, the source tag and the
\* score of the first candidate with the maximal score, and the analysis of
\* the same text.
C1_ReturnsScoreOfBest ==
    TranslateReturned =>
      \E i \in DOMAIN outputs :
         /\ ReturnsCandidate(i)
         /\ RatEq(result[1].best_score, outputs[i].score)

\* C1 amended: translate returns the translation and the source tag of the
\* first candidate with the maximal score, that candidate's score rounded to
\* three decimal places, and the analysis of the same text.
C1_ReturnsRoundedScoreOfBest ==
    TranslateReturned =>
      \E i \in DOMAIN outputs :
         /\ ReturnsCandidate(i)
         /\ IsRounded3(result[1].best_score, outputs[i].score)

\* two candidates tie at the maximum, the first is returned, and its score is
\* no multiple of 1/1000
C1_Witness ==
    /\ TranslateReturned
    /\ Len(outputs) >= 2
    /\ RatEq(outputs[1].score, outputs[2].score)
    /\ IsStableMax(outputs, 1)
    /\ result[1].best_src = hyps[1]
    /\ ~RatEq(result[1].best_score, outputs[1].score)

HypsBuilt ==
    /\ entry \in {"translate", "translate_ui"}
    /\ analysis # <<>>
    /\ pc \in {"engine", "done", "raised"}

\* C2: the list of hypotheses has 1 to 3 tags, no tag twice, always eng_Latn;
\* arb_Arab is first iff it was detected, eng_Latn follows, then fra_Latn if
\* French was detected, otherwise spa_Latn if Spanish was detected; the
\* engine is called for the hypotheses in this order.
C2_HypothesisList ==
    HypsBuilt =>
      LET d == analysis[1].languages_detected
          arb == InSeq("arb_Arab", d)
          fra == InSeq("fra_Latn", d)
          spa == InSeq("spa_Latn", d)
          k == IF arb THEN 2 ELSE 1
      IN  /\ Len(hyps) \in 1..3
          /\ \A i, j \in DOMAIN hyps : i # j => hyps[i] # hyps[j]
          /\ InSeq("eng_Latn", hyps)
          /\ (hyps[1] = "arb_Arab") <=> arb
          /\ \A i \in DOMAIN hyps : hyps[i] = "arb_Arab" => i = 1
          /\ Len(hyps) >= k /\ hyps[k] = "eng_Latn"
          /\ fra => Len(hyps) = k + 1 /\ hyps[k + 1] = "fra_Latn"
          /\ (~fra /\ spa) => Len(hyps) = k + 1 /\ hyps[k + 1] = "spa_Latn"
          /\ (~fra /\ ~spa) => Len(hyps) = k
          /\ ~(InSeq("fra_Latn", hyps) /\ InSeq("spa_Latn", hyps))
          /\ Len(engineLog) <= Len(hyps)
          /\ \A i \in DOMAIN engineLog : engineLog[i].src = hyps[i]

\* all three hypotheses were tried, in order
C2_Witness ==
    /\ pc = "done"
    /\ hyps = <<"arb_Arab", "eng_Latn", "fra_Latn">>
    /\ Len(engineLog) = 3

\* C3: for an empty or whitespace-only text analyze_words returns the empty
\* analysis, translate returns an empty translation without a call of the
\* engine and without loading the model, and translate_ui returns an empty
\* translation without calling translate.
C3_BlankInput ==
    /\ (entry = "analyze_words" /\ AllSpace(text)) =>
          /\ pc = "done"
          /\ analysis = << [words |-> <<>>, languages_detected |-> <<>>,
                            languages_count |-> 0] >>
    /\ (entry = "translate" /\ AllSpace(text)) =>
          /\ pc = "done"
          /\ result # <<>>
          /\ result[1].translation = <<>>
          /\ engineLog = <<>>
          /\ tokenizer_src_lang = "None"
          /\ model = "None"
    /\ (entry = "translate_ui" /\ AllSpace(text)) =>
          /\ pc = "done"
          /\ ui # <<>>
          /\ ui[1].translation = <<>>
          /\ result = <<>>
          /\ engineLog = <<>>
          /\ tokenizer_src_lang = "None"

\* translate has returned for a text of whitespace
C3_Witness ==
    /\ entry = "translate"
    /\ pc = "done"
    /\ text # <<>>
    /\ AllSpace(text)
    /\ result # <<>>

\* C4: the context language is eng_Latn at first and then the tag of the last
\* word token; a word token of at most 3 Latin letters has the tag of the
\* nearest word token before it (eng_Latn if there is none), so it and the
\* punctuation tokens leave the context language as it was.
C4_ContextLanguage ==
    /\ context_lang = PrevWordLang(words, Len(words) + 1)
    /\ \A i \in DOMAIN words :
         (~FullMatchPunct(words[i].tok) /\ IsShortLatin(words[i].tok)) =>
            words[i].lang = PrevWordLang(words, i)

\* a short Latin word after a punctuation token has a tag other than the
\* default, that of the word before the punctuation
C4_Witness ==
    /\ pc = "done"
    /\ \E i \in DOMAIN words :
         /\ i > 2
         /\ IsShortLatin(words[i].tok)
         /\ words[i - 1].lang = "punct"
         /\ words[i].lang # "eng_Latn"
         /\ words[i].lang = words[i - 2].lang
         /\ context_lang = words[i].lang

\* C5 as claimed: the identifier is asked only about tokens of 4 or more Latin
\* letters, and a word token with no character of a recognized script that
\* is not made of Latin letters has the tag of the context language.
C5_IdentifierOnlyForLatin ==
    /\ \A i \in queried : FullMatchLatin(tokens[i]) /\ Len(tokens[i]) >= 4
    /\ \A i \in DOMAIN words :
         (/\ ~FullMatchPunct(words[i].tok)
          /\ detect_by_script(words[i].tok) = "None"
          /\ ~FullMatchLatin(words[i].tok)) =>
            words[i].lang = PrevWordLang(words, i)

\* the first index of ws whose tag is lang
FirstIndex(ws, lang) ==
    CHOOSE i \in DOMAIN ws :
       ws[i].lang = lang /\ \A j \in 1..(i - 1) : ws[j].lang # lang

\* analyze_words has just returned: to its caller, or to translate before
\* the first call of the engine
AnalyzeWordsReturned ==
    /\ analysis # <<>>
    /\ outputs = <<>>
    /\ pc \in {"done", "engine"}

\* C6: in the result of analyze_words exactly the punctuation runs are tagged
\* punct; languages_detected has no punct and no tag twice and lists the tags
\* of the word tokens in the order of their first occurrence; languages_count
\* is its length; words holds the tokens that are no whitespace, in the order
\* of the text.
C6_AnalysisResult ==
    AnalyzeWordsReturned =>
      LET ws == analysis[1].words
          det == analysis[1].languages_detected
          toks == [i \in DOMAIN ws |-> ws[i].tok]
      IN  /\ \A i \in DOMAIN ws : FullMatchPunct(ws[i].tok) <=> ws[i].lang = "punct"
          /\ \A k \in DOMAIN det : det[k] # "punct"
          /\ \A k, l \in DOMAIN det : k # l => det[k] # det[l]
          /\ {det[k] : k \in DOMAIN det}
               = {ws[i].lang : i \in {j \in DOMAIN ws : ws[j].lang # "punct"}}
          /\ \A k, l \in DOMAIN det :
               k < l => FirstIndex(ws, det[k]) < FirstIndex(ws, det[l])
          /\ analysis[1].languages_count = Len(det)
          /\ toks = SelectSeq(FindAllTokens(AnalyzedText), NotSpaceToken)
          /\ Flatten(toks) = SelectSeq(AnalyzedText, NotSpaceChar)

\* an analysis with a punctuation token between words of two languages
C6_Witness ==
    /\ pc = "done"
    /\ analysis # <<>>
    /\ analysis[1].languages_count = 2
    /\ Len(analysis[1].words) = 3
    /\ analysis[1].words[2].lang = "punct"

\* the script of a tag of the registry (the part after the underscore)
ScriptOfTag(t) ==
    CASE t \in {"arb_Arab", "urd_Arab", "pes_Arab"} -> "Arab"
      [] t \in {"rus_Cyrl", "ukr_Cyrl", "bul_Cyrl", "srp_Cyrl"} -> "Cyrl"
      [] t \in {"zho_Hans", "zho_Hant", "jpn_Jpan", "kor_Hang"} -> "CJK"
      [] t \in {"hin_Deva", "ben_Beng", "tha_Thai", "tam_Taml", "tel_Telu",
                "ell_Grek", "heb_Hebr", "amh_Ethi"} -> "Other"
      [] OTHER -> "Latn"

\* C7 as claimed: for every tag of the registry and every non-empty
\* translation the count follows the script of the target: Arabic script
\* counts Latin + Cyrillic + CJK, Latin script counts Arabic + Cyrillic + CJK,
\* Cyrillic counts Latin + Arabic + CJK, CJK/Hangul counts Latin + Arabic +
\* Cyrillic, any other script counts Latin + Arabic.
C7_LeftoverFollowsScript ==
    (scored # <<>> /\ scored[1].fn = "count_leftover_scripts" /\ text # <<>>) =>
      LET arabic == CountIn(text, ARABIC_RE)
          latin == CountIn(text, LATIN_RE)
          cyr == CountIn(text, CYRILLIC_RE)
          cjk == CountIn(text, CJK_RE)
          script == ScriptOfTag(target_lang_code)
      IN  scored[1].leftover =
            CASE script = "Arab" -> latin + cyr + cjk
              [] script = "Latn" -> arabic + cyr + cjk
              [] script = "Cyrl" -> latin + arabic + cjk
              [] script = "CJK" -> latin + arabic + cyr
              [] OTHER -> latin + arabic

\* C8 as claimed: a failure of the engine for one hypothesis does not end
\* translate; an error comes out only when every hypothesis was tried and
\* every one failed.
C8_SkipsFailingHypothesis ==
    pc = "raised" => (Len(engineLog) = Len(hyps) /\ outputs = <<>>)

\* C9 as claimed: for a text that is not blank, translate and translate_ui
\* do not report success with an empty translation.
C9_NoSilentEmptyTranslation ==
    (pc = "done" /\ entry \in {"translate", "translate_ui"} /\ ~AllSpace(text)) =>
      /\ result # <<>> => result[1].translation # <<>>
      /\ ui # <<>> => ~(ui[1].status.kind = "done" /\ ui[1].translation = <<>>)

\* C10 as claimed: every call of the engine for hypothesis h encodes the text
\* with source h, also when two requests run at once.
C10_EncodesDeclaredSource ==
    threads # <<>> =>
      \A r \in Requests : \A i \in DOMAIN threads[r].calls :
         threads[r].calls[i].encoded = threads[r].calls[i].src

====
